---- MODULE Spec2Model ----
(***************************************************************************)
(* Forest-fire simulation: the grid coordinate with its Moore              *)
(* neighbourhood iterator (src/src/geometry.rs) and the fire engine        *)
(* Forest::new / Forest::tick / Forest::steady_state (src/src/forest.rs).  *)
(***************************************************************************)
EXTENDS Integers, Sequences, FiniteSets, TLC

\* ------------------------------------------------------------------ bounds
\* grid_width and grid_height range over 1..MaxGrid
MaxGrid == 3
\* a placement that is not fully planted holds at most MaxTrees planted trees
MaxTrees == 2
\* burn_duration ranges over 1..MaxBurn
MaxBurn == 2
\* tick() is called while the clock is below MaxTick
MaxTick == 5
\* a fully planted grid of at most MaxFull cells is paired with every susceptibility
MaxFull == 4
\* the orders of a set and the draws of a tick are enumerated exhaustively for at most
\* MaxExhaustive cells
MaxExhaustive == 4
\* probabilities are the fractions n / Resolution, n in 0..Resolution
Resolution == 2
\* width in bits of usize and isize
UsizeBits == 4

VARIABLES
    grid_width,     \* Forest.grid_width
    grid_height,    \* Forest.grid_height
    suceptibility,  \* Forest.suceptibility, as a numerator over Resolution
    burn_duration,  \* Forest.burn_duration
    rng,            \* Forest.rng: how many values the seeded source has produced
    trees,          \* Forest.trees: GridPosition -> TreeState
    active,         \* Forest.active: set of GridPosition
    tick,           \* Forest.tick
    may_burn,       \* Forest.may_burn: GridPosition -> probability of remaining uncaught
    changeset,      \* Forest.changeset: sequence of <<GridPosition, TreeState>>
    panicked,       \* the expect() of tick() has aborted the program
    twin,           \* <<>>, or <<f>> with f a second Forest built from the same inputs
    moore,          \* a MooreNeighborhood iterator: [pos, delta_idx]
    yielded,        \* the items that iterator has returned so far
    moore_done      \* that iterator has returned None

vars == <<grid_width, grid_height, suceptibility, burn_duration, rng, trees, active,
          tick, may_burn, changeset, panicked, twin, moore, yielded, moore_done>>

forest_vars == <<grid_width, grid_height, suceptibility, burn_duration, rng, trees,
                 active, tick, may_burn, changeset, panicked>>

moore_vars == <<moore, yielded, moore_done>>

\* ------------------------------------------------------------- geometry.rs
GridPosition(x, y) == [x |-> x, y |-> y]

\* derive(PartialOrd, Ord) on GridPosition: by x, then by y
PosLess(a, b) == a.x < b.x \/ (a.x = b.x /\ a.y < b.y)

RECURSIVE Pow(_, _)
Pow(b, n) == IF n = 0 THEN 1 ELSE b * Pow(b, n - 1)

UsizeMax == Pow(2, UsizeBits) - 1
IsizeMax == Pow(2, UsizeBits - 1) - 1
IsizeMin == 0 - Pow(2, UsizeBits - 1)

\* `u as isize`: the same bits read as a two's-complement number
AsIsize(u) == IF u > IsizeMax THEN u - Pow(2, UsizeBits) ELSE u

None == [some |-> FALSE, val |-> 0]
Some(v) == [some |-> TRUE, val |-> v]

\* isize::checked_add
CheckedAdd(a, b) ==
    IF a + b < IsizeMin \/ a + b > IsizeMax THEN None ELSE Some(a + b)

\* DELTAS without the four diagonals
DeltasOrthogonal == << <<-1, 0>>, <<1, 0>>, <<0, -1>>, <<0, 1>> >>

\* DELTAS, with the offset (0, 1) mistyped as (0, 2)
DeltasJump ==
    << <<-1, 0>>, <<1, 0>>, <<0, -1>>, <<0, 2>>,
       <<-1, -1>>, <<-1, 1>>, <<1, 1>>, <<1, -1>> >>

DELTAS ==
    << <<-1, 0>>, <<1, 0>>, <<0, -1>>, <<0, 1>>,
       <<-1, -1>>, <<-1, 1>>, <<1, 1>>, <<1, -1>> >>

\* MooreNeighborhood::new: delta_idx is the range 0..8, kept as its next index
MooreNew(pos) == [pos |-> pos, delta_idx |-> 1]

\* MooreNext, but skipping the results with a zero coordinate too
RECURSIVE MooreNextStrict(_)
MooreNextStrict(it) ==
    IF it.delta_idx > Len(DELTAS)
    THEN [item |-> None, it |-> it]
    ELSE LET delta == DELTAS[it.delta_idx]
             pos_x == AsIsize(it.pos.x)
             pos_y == AsIsize(it.pos.y)
             x     == CheckedAdd(pos_x, delta[1])
             y     == CheckedAdd(pos_y, delta[2])
             rest  == [it EXCEPT !.delta_idx = @ + 1]
         IN  IF x.some /\ y.some /\ x.val > 0 /\ y.val > 0
             THEN [item |-> Some(GridPosition(x.val, y.val)), it |-> rest]
             ELSE MooreNextStrict(rest)

\* MooreNeighborhood::next: [item |-> Option<GridPosition>, it |-> the iterator after]
RECURSIVE MooreNext(_)
MooreNext(it) ==
    IF it.delta_idx > Len(DELTAS)
    THEN [item |-> None, it |-> it]
    ELSE LET delta == DELTAS[it.delta_idx]
             pos_x == AsIsize(it.pos.x)
             pos_y == AsIsize(it.pos.y)
             x     == CheckedAdd(pos_x, delta[1])
             y     == CheckedAdd(pos_y, delta[2])
             rest  == [it EXCEPT !.delta_idx = @ + 1]
         IN  IF x.some /\ y.some /\ x.val >= 0 /\ y.val >= 0
             THEN [item |-> Some(GridPosition(x.val, y.val)), it |-> rest]
             ELSE MooreNext(rest)

\* `for neighbor in grid_pos.neighbors()`: every item of the iterator, in order
RECURSIVE Drain(_)
Drain(it) ==
    LET r == MooreNext(it)
    IN  IF r.item.some THEN <<r.item.val>> \o Drain(r.it) ELSE <<>>

\* every position a coordinate can take
Positions == {GridPosition(x, y) : x \in 0 .. UsizeMax, y \in 0 .. UsizeMax}

\* GridPosition::neighbors, drained, for every position
Neighborhoods == [pos \in Positions |-> Drain(MooreNew(pos))]

Neighbors(pos) == Neighborhoods[pos]

\* --------------------------------------------------------------- forest.rs
Uncaught == [state |-> "Uncaught", until |-> 0]
Catching == [state |-> "Catching", until |-> 0]
\* Burning, but the fire lasts one tick longer
BurningOffByOne(until) == [state |-> "Burning", until |-> until + 1]

Burning(until) == [state |-> "Burning", until |-> until]
Burnt == [state |-> "Burnt", until |-> 0]

\* the values one draw of the random source can take, as numerators over Resolution
DrawValues == 0 .. (Resolution - 1)

\* a probability is a fraction num / den
ProbOne == [num |-> 1, den |-> 1]

\* TimesRemain, but multiplying by the susceptibility itself
TimesSusceptibility(p, s) == [num |-> p.num * s, den |-> p.den * Resolution]

\* `p * (1. - self.suceptibility)`
TimesRemain(p, s) == [num |-> p.num * (Resolution - s), den |-> p.den * Resolution]

\* GenBool, but true also when the draw equals p
GenBoolInclusive(p, u) == u * p.den <= p.num * Resolution

\* rng.gen_bool(p) on the draw u / Resolution: true iff the draw is below p
GenBool(p, u) == u * p.den < p.num * Resolution

SeqToSet(s) == {s[i] : i \in 1 .. Len(s)}

\* the least position of a non-empty set
MinPos(S) == CHOOSE m \in S : \A o \in S : o = m \/ PosLess(m, o)

RECURSIVE Ascending(_)
Ascending(S) ==
    IF S = {} THEN <<>>
    ELSE LET m == MinPos(S) IN <<m>> \o Ascending(S \ {m})

RECURSIVE Reverse(_)
Reverse(s) == IF s = <<>> THEN <<>> ELSE Append(Reverse(Tail(s)), Head(s))

\* IterOrders for a container that keeps no order: it may visit the keys either way
IterOrdersUnordered(S) == {Ascending(S), Reverse(Ascending(S))}

\* the orders in which iterating a BTreeMap / BTreeSet with key set S can visit it
IterOrders(S) == {Ascending(S)}

\* BTreeMap::insert
MapInsert(m, k, v) == [p \in DOMAIN m \cup {k} |-> IF p = k THEN v ELSE m[p]]

EmptyMap == [p \in {} |-> ProbOne]

Self ==
    [grid_width |-> grid_width, grid_height |-> grid_height,
     suceptibility |-> suceptibility, burn_duration |-> burn_duration, rng |-> rng,
     trees |-> trees, active |-> active, tick |-> tick, may_burn |-> may_burn,
     changeset |-> changeset, panicked |-> panicked]

\* the cells of a grid_width x grid_height grid, the range of the loops of new()
Grid(w, h) == {GridPosition(x, y) : x \in 0 .. (w - 1), y \in 0 .. (h - 1)}

\* Forest::new, with `planted` the cells for which rng.gen_bool(tree_density) held
New(w, h, s, d, planted) ==
    LET center == GridPosition(w \div 2, w \div 2)
        placed == [p \in planted |-> Uncaught]
    IN  [grid_width |-> w, grid_height |-> h, suceptibility |-> s,
         burn_duration |-> d, rng |-> w * h,
         trees |-> MapInsert(placed, center, Catching),
         active |-> {center}, tick |-> 0, may_burn |-> EmptyMap,
         changeset |-> <<>>, panicked |-> FALSE]

\* SteadyState, but already true with one active cell left
SteadyStateLoose(self) == Cardinality(self.active) <= 1

\* Forest::steady_state
SteadyState(self) == Cardinality(self.active) = 0

\* MayBurnNeighbor, but without the test that the neighbour is Uncaught
MayBurnNeighborAnyState(self, mb, neighbor) ==
    IF neighbor \in DOMAIN self.trees
    THEN MapInsert(mb, neighbor,
                   TimesRemain(IF neighbor \in DOMAIN mb THEN mb[neighbor] ELSE ProbOne,
                               self.suceptibility))
    ELSE mb

\* MayBurnNeighbor, but a coordinate absent from the cell map counts as Uncaught
MayBurnNeighborNoLookup(self, mb, neighbor) ==
    IF neighbor \notin DOMAIN self.trees \/ self.trees[neighbor] = Uncaught
    THEN MapInsert(mb, neighbor,
                   TimesRemain(IF neighbor \in DOMAIN mb THEN mb[neighbor] ELSE ProbOne,
                               self.suceptibility))
    ELSE mb

\* the inner loop of the Burning arm: one neighbour of a burning cell
MayBurnNeighbor(self, mb, neighbor) ==
    IF neighbor \in DOMAIN self.trees /\ self.trees[neighbor] = Uncaught
    THEN MapInsert(mb, neighbor,
                   TimesRemain(IF neighbor \in DOMAIN mb THEN mb[neighbor] ELSE ProbOne,
                               self.suceptibility))
    ELSE mb

RECURSIVE MayBurnNeighbors(_, _, _)
MayBurnNeighbors(self, mb, ns) ==
    IF ns = <<>> THEN mb
    ELSE MayBurnNeighbors(self, MayBurnNeighbor(self, mb, Head(ns)), Tail(ns))

\* VisitActive, but a Burning cell is extinguished only once the clock has passed `until`
VisitActiveLate(self, acc, grid_pos) ==
    IF grid_pos \notin DOMAIN self.trees
    THEN [acc EXCEPT !.panicked = TRUE]
    ELSE LET st == self.trees[grid_pos]
         IN  IF st.state = "Catching"
             THEN [acc EXCEPT !.changeset =
                       Append(@, <<grid_pos, Burning(self.tick + self.burn_duration)>>)]
             ELSE IF st.state = "Burning"
             THEN [acc EXCEPT
                     !.may_burn = MayBurnNeighbors(self, @, Neighbors(grid_pos)),
                     !.changeset = IF self.tick > st.until
                                   THEN Append(@, <<grid_pos, Burnt>>) ELSE @]
             ELSE acc

\* VisitActive, but a Catching cell burns until burn_duration, whatever the clock
VisitActiveRelativeUntil(self, acc, grid_pos) ==
    IF grid_pos \notin DOMAIN self.trees
    THEN [acc EXCEPT !.panicked = TRUE]
    ELSE LET st == self.trees[grid_pos]
         IN  IF st.state = "Catching"
             THEN [acc EXCEPT !.changeset =
                       Append(@, <<grid_pos, Burning(self.burn_duration)>>)]
             ELSE IF st.state = "Burning"
             THEN [acc EXCEPT
                     !.may_burn = MayBurnNeighbors(self, @, Neighbors(grid_pos)),
                     !.changeset = IF self.tick >= st.until
                                   THEN Append(@, <<grid_pos, Burnt>>) ELSE @]
             ELSE acc

\* VisitActive, but a Catching cell endangers its neighbours as a Burning one does
VisitActiveCatchingSpreads(self, acc, grid_pos) ==
    IF grid_pos \notin DOMAIN self.trees
    THEN [acc EXCEPT !.panicked = TRUE]
    ELSE LET st == self.trees[grid_pos]
         IN  IF st.state = "Catching"
             THEN [acc EXCEPT
                     !.may_burn = MayBurnNeighbors(self, @, Neighbors(grid_pos)),
                     !.changeset =
                       Append(@, <<grid_pos, Burning(self.tick + self.burn_duration)>>)]
             ELSE IF st.state = "Burning"
             THEN [acc EXCEPT
                     !.may_burn = MayBurnNeighbors(self, @, Neighbors(grid_pos)),
                     !.changeset = IF self.tick >= st.until
                                   THEN Append(@, <<grid_pos, Burnt>>) ELSE @]
             ELSE acc

\* the body of the first loop of tick() for one active position; acc holds the
\* may_burn map, the changeset and whether expect() has aborted
VisitActive(self, acc, grid_pos) ==
    IF grid_pos \notin DOMAIN self.trees
    THEN [acc EXCEPT !.panicked = TRUE]
    ELSE LET st == self.trees[grid_pos]
         IN  IF st.state = "Catching"
             THEN [acc EXCEPT !.changeset =
                       Append(@, <<grid_pos, Burning(self.tick + self.burn_duration)>>)]
             ELSE IF st.state = "Burning"
             THEN [acc EXCEPT
                     !.may_burn = MayBurnNeighbors(self, @, Neighbors(grid_pos)),
                     !.changeset = IF self.tick >= st.until
                                   THEN Append(@, <<grid_pos, Burnt>>) ELSE @]
             ELSE acc

\* Propagate, but the loop is left after the first cell that burns out
RECURSIVE PropagateStopsAtBurnt(_, _, _)
PropagateStopsAtBurnt(self, acc, order) ==
    IF \/ order = <<>>
       \/ acc.panicked
       \/ acc.changeset # <<>> /\ acc.changeset[Len(acc.changeset)][2] = Burnt
    THEN acc
    ELSE PropagateStopsAtBurnt(self, VisitActive(self, acc, Head(order)), Tail(order))

\* the first loop of tick(), visiting the active set in the given order
RECURSIVE Propagate(_, _, _)
Propagate(self, acc, order) ==
    IF order = <<>> \/ acc.panicked THEN acc
    ELSE Propagate(self, VisitActive(self, acc, Head(order)), Tail(order))

\* Decide, but a cell becomes Catching when its draw succeeds
RECURSIVE DecideInverted(_, _, _, _)
DecideInverted(mb, cs, order, draws) ==
    IF order = <<>> THEN cs
    ELSE DecideInverted(mb,
                IF GenBool(mb[Head(order)], Head(draws))
                THEN Append(cs, <<Head(order), Catching>>) ELSE cs,
                Tail(order), Tail(draws))

\* the second loop of tick(): the i-th position visited takes the i-th draw
RECURSIVE Decide(_, _, _, _)
Decide(mb, cs, order, draws) ==
    IF order = <<>> THEN cs
    ELSE Decide(mb,
                IF ~GenBool(mb[Head(order)], Head(draws))
                THEN Append(cs, <<Head(order), Catching>>) ELSE cs,
                Tail(order), Tail(draws))

\* ApplyChange, but a cell that becomes Burnt stays in the active set
ApplyChangeKeepsBurnt(f, change) ==
    LET grid_pos == change[1]
        state    == change[2]
    IN  [f EXCEPT !.trees = MapInsert(@, grid_pos, state),
                  !.active = IF state.state = "Catching" THEN @ \cup {grid_pos} ELSE @]

\* the body of the third loop of tick(): one entry of the changeset
ApplyChange(f, change) ==
    LET grid_pos == change[1]
        state    == change[2]
    IN  [f EXCEPT !.trees = MapInsert(@, grid_pos, state),
                  !.active = IF state.state = "Catching" THEN @ \cup {grid_pos}
                             ELSE IF state.state = "Burnt" THEN @ \ {grid_pos}
                             ELSE @]

RECURSIVE Commit(_, _)
Commit(f, cs) == IF cs = <<>> THEN f ELSE Commit(ApplyChange(f, Head(cs)), Tail(cs))

\* Finish, but the clock is advanced once for every entry of the changeset
FinishClockPerChange(self, acc, order, draws) ==
    IF acc.panicked THEN [self EXCEPT !.panicked = TRUE]
    ELSE LET cs == Decide(acc.may_burn, acc.changeset, order, draws)
             f  == Commit(self, cs)
         IN  [f EXCEPT !.rng = @ + Len(order), !.may_burn = EmptyMap,
                       !.changeset = <<>>, !.tick = @ + Len(cs)]

\* tick() from its first loop's result `acc` on: the positions of may_burn are visited
\* in `order` and take the first Len(order) of `draws`
Finish(self, acc, order, draws) ==
    IF acc.panicked THEN [self EXCEPT !.panicked = TRUE]
    ELSE LET cs == Decide(acc.may_burn, acc.changeset, order, draws)
             f  == Commit(self, cs)
         IN  [f EXCEPT !.rng = @ + Len(order), !.may_burn = EmptyMap,
                       !.changeset = <<>>, !.tick = @ + 1]

FirstLoop(self, order) ==
    Propagate(self, [may_burn |-> self.may_burn, changeset |-> self.changeset,
                     panicked |-> FALSE], order)

\* ------------------------------------------------------------- the machine
RECURSIVE UpTo(_, _)
\* the subsets of S with at most k elements
UpTo(S, k) ==
    IF k = 0 THEN {{}}
    ELSE LET P == UpTo(S, k - 1) IN P \cup {p \cup {x} : p \in P, x \in S}

\* the outcomes of the gen_bool(tree_density) draws of new(): none holds at density 0,
\* all hold at density 1, any may hold in between. The inputs enumerated: a fully
\* planted grid with susceptibility 0 or 1, a fully planted grid of at most MaxFull
\* cells and a grid of at most MaxTrees planted trees with any susceptibility
Placements(w, h, s, density) ==
    IF density = 0 THEN {{}}
    ELSE IF density = Resolution
    THEN IF s \in {0, Resolution} \/ w * h <= MaxFull THEN {Grid(w, h)} ELSE {}
    ELSE UpTo(Grid(w, h), MaxTrees)

Install(f) ==
    /\ grid_width' = f.grid_width
    /\ grid_height' = f.grid_height
    /\ suceptibility' = f.suceptibility
    /\ burn_duration' = f.burn_duration
    /\ rng' = f.rng
    /\ trees' = f.trees
    /\ active' = f.active
    /\ tick' = f.tick
    /\ may_burn' = f.may_burn
    /\ changeset' = f.changeset
    /\ panicked' = f.panicked

\* the fields of the forest are those of f
Is(f) ==
    /\ grid_width = f.grid_width
    /\ grid_height = f.grid_height
    /\ suceptibility = f.suceptibility
    /\ burn_duration = f.burn_duration
    /\ rng = f.rng
    /\ trees = f.trees
    /\ active = f.active
    /\ tick = f.tick
    /\ may_burn = f.may_burn
    /\ changeset = f.changeset
    /\ panicked = f.panicked

\* the state after Forest::new, for every input enumerated
InitForest ==
    \E w \in 1 .. MaxGrid, h \in 1 .. MaxGrid, s \in 0 .. Resolution,
       d \in 1 .. MaxBurn, density \in 0 .. Resolution :
        \E planted \in Placements(w, h, s, density) :
            \E f \in {New(w, h, s, d, planted)} : Is(f)

IdleMoore ==
    /\ moore = MooreNew(GridPosition(0, 0))
    /\ yielded = <<>>
    /\ moore_done = FALSE

Init ==
    /\ InitForest
    /\ twin = <<>>
    /\ IdleMoore

\* one call of tick()
Tick ==
    /\ ~panicked
    /\ tick < MaxTick
    /\ \E self \in {Self} :
        \E oa \in IterOrders(self.active) :
            \E acc \in {FirstLoop(self, oa)} :
                \E om \in IterOrders(DOMAIN acc.may_burn) :
                    \E draws \in [1 .. Len(om) -> DrawValues] :
                        \E f \in {Finish(self, acc, om, draws)} : Install(f)
    /\ UNCHANGED <<twin, moore_vars>>

Next == Tick

Spec == Init /\ [][Next]_vars

\* a call of tick() made by the driving loop of main.rs, seen through the clock: the
\* loop calls tick() on every frame while the simulation is not in steady state
DrivenTick ==
    /\ ~panicked
    /\ ~SteadyState(Self)
    /\ tick < MaxTick
    /\ tick' = tick + 1

\* every step of Spec that advances the clock is a call of tick(), so this is weak
\* fairness of the loop's calls
FairSpec == Spec /\ WF_tick(DrivenTick)

\* ---- two forests built from the same inputs and fed the same draws
InitDet ==
    /\ InitForest
    /\ twin = <<Self>>
    /\ IdleMoore

Max(a, b) == IF a >= b THEN a ELSE b

\* one call of tick() on each of the two forests; both random sources, seeded alike
\* and at the same position, produce the values `draws`
TickBoth ==
    /\ twin # <<>>
    /\ ~panicked /\ ~twin[1].panicked
    /\ tick < MaxTick
    /\ \E self \in {Self}, other \in {twin[1]} :
        \E oa \in IterOrders(self.active), ob \in IterOrders(other.active) :
            \E acc \in {FirstLoop(self, oa)}, bcc \in {FirstLoop(other, ob)} :
                \E om \in IterOrders(DOMAIN acc.may_burn),
                   on \in IterOrders(DOMAIN bcc.may_burn) :
                    \E draws \in [1 .. Max(Len(om), Len(on)) -> DrawValues] :
                        \E f \in {Finish(self, acc, om, draws)},
                           g \in {Finish(other, bcc, on, draws)} :
                            /\ Install(f)
                            /\ twin' = <<g>>
    /\ UNCHANGED moore_vars

NextDet == TickBoth

SpecDet == InitDet /\ [][NextDet]_vars

\* ---- the neighbourhood iterator on its own, for every position

InitGeom ==
    /\ Is(New(1, 1, 0, 1, {}))
    /\ twin = <<>>
    /\ \E pos \in Positions : moore = MooreNew(pos)
    /\ yielded = <<>>
    /\ moore_done = FALSE

\* one call of MooreNeighborhood::next
MooreStep ==
    /\ ~moore_done
    /\ \E r \in {MooreNext(moore)} :
        /\ moore' = r.it
        /\ yielded' = IF r.item.some THEN Append(yielded, r.item.val) ELSE yielded
        /\ moore_done' = ~r.item.some
    /\ UNCHANGED <<forest_vars, twin>>

NextGeom == MooreStep

SpecGeom == InitGeom /\ [][NextGeom]_vars

\* ------------------------------------------------------------------ claims
Center == GridPosition(grid_width \div 2, grid_width \div 2)

IsActiveState(st) == st.state \in {"Catching", "Burning"}

\* C1: after new() and after every tick(), the active set is exactly the set of
\* coordinates whose cell is Catching or Burning (so every active coordinate is a
\* key of the cell map), and the expect() at the start of tick() never aborts.
C1_ActiveSetConsistent ==
    /\ ~panicked
    /\ active \subseteq DOMAIN trees
    /\ active = {p \in DOMAIN trees : IsActiveState(trees[p])}

\* a tick has inserted a cell into the active set and removed another
C1_Witness ==
    /\ tick > 0
    /\ \E p \in active : p # Center
    /\ \E p \in DOMAIN trees : trees[p] = Burnt

Rank(st) ==
    CASE st.state = "Uncaught" -> 0
      [] st.state = "Catching" -> 1
      [] st.state = "Burning" -> 2
      [] st.state = "Burnt" -> 3

\* C2: no tick() moves a cell to an earlier state of the order Uncaught, Catching,
\* Burning, Burnt; hence the states a cell is observed in form a subsequence of it.
C2_Monotonic ==
    [][\A p \in DOMAIN trees :
           p \in DOMAIN trees' /\ Rank(trees'[p]) >= Rank(trees[p])]_vars

\* cells in three different stages after some ticks
C2_Witness ==
    /\ \E p \in DOMAIN trees : trees[p] = Burnt
    /\ \E p \in DOMAIN trees : trees[p].state = "Burning"
    /\ \E p \in DOMAIN trees : trees[p] = Uncaught

\* the termination scenario: a fully planted 3x3 grid, susceptibility 1, burn duration 1
\* (new() ignites its center (1,1))
C3_Scenario ==
    /\ grid_width = 3 /\ grid_height = 3
    /\ DOMAIN trees = Grid(3, 3)
    /\ suceptibility = Resolution
    /\ burn_duration = 1

AllBurnt == \A p \in DOMAIN trees : trees[p] = Burnt

\* C3 as stated: in the scenario, after exactly 2 calls of tick() every cell is Burnt
\* and steady_state() is true.
C3_Original == (C3_Scenario /\ tick = 2) => (AllBurnt /\ SteadyState(Self))

\* C3 amended: in the scenario, every cell is Burnt and steady_state() is true after
\* exactly 4 calls of tick(), and steady_state() is false after fewer calls.
C3_Termination ==
    C3_Scenario =>
        /\ tick < 4 => ~SteadyState(Self)
        /\ tick >= 4 => (AllBurnt /\ SteadyState(Self))

C3_Witness == C3_Scenario /\ tick = 4 /\ AllBurnt

\* C4: a cell that enters Burning in the tick() call run with clock value T carries
\* until = T + burn_duration; a Burning cell becomes Burnt in the call run with clock
\* value until, and is left as it is by every call run with another clock value.
C4_BurnDuration ==
    [][\A p \in DOMAIN trees :
           /\ (trees[p].state # "Burning" /\ trees'[p].state = "Burning")
                  => trees'[p].until = tick + burn_duration
           /\ trees[p].state = "Burning"
                  => trees'[p] = IF tick = trees[p].until THEN Burnt ELSE trees[p]]_vars

\* with burn duration 2 the center entered Burning at tick 0 and came out at tick 2,
\* and a cell ignited later is still Burning
C4_Witness ==
    /\ burn_duration = 2
    /\ trees[Center] = Burnt
    /\ \E p \in DOMAIN trees : trees[p].state = "Burning" /\ trees[p].until > tick

C6_Extinguished ==
    /\ SteadyState(Self)
    /\ trees[Center] = Burnt
    /\ \A p \in DOMAIN trees \ {Center} : trees[p] = Uncaught

\* C6: with susceptibility 0 no tick() turns an Uncaught cell into anything else,
\* and eventually steady_state() is true with the ignition cell Burnt and every other
\* tree still Uncaught.
C6_ZeroSusceptibility ==
    /\ [][suceptibility = 0 =>
              \A p \in DOMAIN trees : trees[p] = Uncaught => trees'[p] = Uncaught]_vars
    /\ <>(suceptibility = 0 => C6_Extinguished)

\* the fire went out next to a tree it never lit
C6_Witness ==
    /\ suceptibility = 0
    /\ C6_Extinguished
    /\ \E q \in SeqToSet(Neighbors(Center)) : q \in DOMAIN trees

HasBurningNeighbor(p) ==
    \E q \in SeqToSet(Neighbors(p)) : q \in DOMAIN trees /\ trees[q].state = "Burning"

\* C7: with susceptibility 1, every tree that is Uncaught and has a Moore neighbour in
\* state Burning when tick() is called is Catching when the call returns, whatever
\* the draws.
C7_FullSusceptibility ==
    [][suceptibility = Resolution =>
           \A p \in DOMAIN trees :
               (trees[p] = Uncaught /\ HasBurningNeighbor(p)) => trees'[p] = Catching]_vars

\* the fire has just jumped from the burning center to a neighbour
C7_Witness ==
    /\ suceptibility = Resolution
    /\ tick = 2
    /\ \E p \in DOMAIN trees : p # Center /\ trees[p] = Catching

\* C8: tick() never adds or removes a key of the cell map, and the active set holds
\* only keys of the cell map: a coordinate with no tree never enters either.
C8_NoTreeBoundary ==
    /\ active \subseteq DOMAIN trees
    /\ [][DOMAIN trees' = DOMAIN trees /\ active' \subseteq DOMAIN trees']_vars

\* a cell has burnt out next to a coordinate without a tree, with susceptibility > 0
C8_Witness ==
    /\ suceptibility > 0
    /\ \E p \in DOMAIN trees :
           /\ trees[p] = Burnt
           /\ \E q \in SeqToSet(Neighbors(p)) : q \notin DOMAIN trees

\* C9: steady_state() is true iff the active set is empty, and once it is true a
\* tick() leaves the cell map and the active set as they are, takes no draw and adds
\* one to the clock, so steady_state() is true again after it.
C9_SteadyAbsorbing ==
    [][/\ SteadyState(Self) <=> active = {}
       /\ SteadyState(Self) =>
              /\ trees' = trees
              /\ active' = active
              /\ rng' = rng
              /\ tick' = tick + 1
              /\ Cardinality(active') = 0]_vars

\* a fire that spread has gone out, and tick() has been called since
C9_Witness ==
    /\ SteadyState(Self)
    /\ tick = MaxTick
    /\ \E p \in DOMAIN trees : p # Center /\ trees[p] = Burnt
    /\ \A p \in DOMAIN trees : trees[p] = Burnt => p = Center \/ burn_duration = 1

\* the offsets in the order the claim gives them
C10_Offsets ==
    << <<-1, 0>>, <<1, 0>>, <<0, -1>>, <<0, 1>>,
       <<-1, -1>>, <<-1, 1>>, <<1, 1>>, <<1, -1>> >>

\* pos + delta for each offset in order, without those with a negative coordinate
C10_Expected(pos) ==
    SelectSeq([i \in 1 .. Len(C10_Offsets) |->
                   GridPosition(pos.x + C10_Offsets[i][1], pos.y + C10_Offsets[i][2])],
              LAMBDA q : q.x >= 0 /\ q.y >= 0)

IsPrefix(s, u) == Len(s) <= Len(u) /\ \A i \in 1 .. Len(s) : s[i] = u[i]

\* what the claim says of the items of neighbors(pos), with the symmetry taken over
\* the positions of `domain`
C10_Correct(pos, domain) ==
    /\ IsPrefix(yielded, C10_Expected(pos))
    /\ moore_done =>
           /\ yielded = C10_Expected(pos)
           /\ Len(yielded) <= 8
           /\ \A i, j \in 1 .. Len(yielded) : i # j => yielded[i] # yielded[j]
           /\ pos \notin SeqToSet(yielded)
           /\ \A q \in domain :
                  q \in SeqToSet(yielded) <=> pos \in SeqToSet(Neighbors(q))

C10_InRange == {q \in Positions : q.x < IsizeMax /\ q.y < IsizeMax}

C11_Clock ==
    /\ tick = 0
    /\ [][IF forest_vars' # forest_vars THEN tick' = tick + 1 ELSE tick' = tick]_vars

\* the clock has been advanced by calls made in a steady state
C11_Witness ==
    /\ tick = MaxTick
    /\ SteadyState(Self)
    /\ \E p \in DOMAIN trees : p # Center /\ trees[p] = Burnt

\* p and q are Moore neighbours
Adjacent(p, q) == p # q /\ p.x - q.x \in -1 .. 1 /\ p.y - q.y \in -1 .. 1

\* the Moore neighbours of p that hold a Burning tree
BurningNeighbors(p) ==
    {q \in DOMAIN trees : trees[q].state = "Burning" /\ Adjacent(p, q)}

\* the Uncaught trees with at least one Burning Moore neighbour
Endangered == {p \in DOMAIN trees : trees[p] = Uncaught /\ BurningNeighbors(p) # {}}

\* the draw u / Resolution is below (1 - susceptibility)^k
RemainsUncaught(u, k) ==
    u * Pow(Resolution, k) < Pow(Resolution - suceptibility, k) * Resolution

\* the draws a tick() with n endangered cells is checked on: every vector of n draws
\* when n is at most MaxExhaustive; for a larger n the vectors that differ from a
\* constant one in at most one place
DrawVectors(n) ==
    IF n <= MaxExhaustive THEN [1 .. n -> DrawValues]
    ELSE {[j \in 1 .. n |-> IF j = i THEN u ELSE c] :
              i \in 1 .. n, u \in DrawValues, c \in DrawValues}

\* C12: a tick() makes exactly one draw for each tree that is Uncaught and has k >= 1
\* Moore neighbours Burning when the call starts, and none for any other coordinate;
\* the draws are made in ascending order of the coordinates (x, then y), each with
\* the probability (1 - susceptibility)^k of remaining Uncaught, and the cell is
\* Catching after the call iff its draw fails; neighbours that are Catching, Burnt
\* or Uncaught add nothing to k.
C12_IgnitionDraws ==
    \A k \in {[p \in Endangered |-> Cardinality(BurningNeighbors(p))]} :
    \A oa \in IterOrders(active) : \A acc \in {FirstLoop(Self, oa)} :
        /\ DOMAIN acc.may_burn = DOMAIN k
        /\ \A p \in DOMAIN k :
               acc.may_burn[p].num * Pow(Resolution, k[p])
                   = Pow(Resolution - suceptibility, k[p]) * acc.may_burn[p].den
        /\ \A om \in IterOrders(DOMAIN acc.may_burn) :
               /\ Len(om) = Cardinality(DOMAIN k)
               /\ SeqToSet(om) = DOMAIN k
               /\ \A i, j \in 1 .. Len(om) :
                      i < j => \/ om[i].x < om[j].x
                               \/ om[i].x = om[j].x /\ om[i].y < om[j].y
               /\ \A draws \in DrawVectors(Len(om)) :
                      \A f \in {Finish(Self, acc, om, draws)} :
                          /\ f.rng = rng + Len(om)
                          /\ \A i \in 1 .. Len(om) :
                                 f.trees[om[i]] = Catching
                                     <=> ~RemainsUncaught(draws[i], k[om[i]])
                          /\ \A p \in DOMAIN trees \ DOMAIN k :
                                 f.trees[p] # Catching

\* two trees are Burning next to an Uncaught tree that has survived an earlier draw,
\* with a susceptibility strictly between 0 and 1
C12_Witness ==
    /\ suceptibility \in 1 .. Resolution - 1
    /\ \E p \in Endangered : Cardinality(BurningNeighbors(p)) >= 2
    /\ \E p \in DOMAIN trees : trees[p] = Burnt

RECURSIVE AllOrders(_)
\* every order of the elements of S
AllOrders(S) ==
    IF S = {} THEN {<<>>}
    ELSE UNION {{<<x>> \o s : s \in AllOrders(S \ {x})} : x \in S}

\* the orders in which the first loop is made to visit S: every order of a set of at
\* most MaxExhaustive cells; of a larger set the ascending order, its reverse and the
\* orders that visit one cell ahead of the others
VisitOrders(S) ==
    IF Cardinality(S) <= MaxExhaustive THEN AllOrders(S)
    ELSE {Ascending(S), Reverse(Ascending(S))}
             \cup {<<x>> \o Ascending(S \ {x}) : x \in S}

\* C13: the state after tick() depends only on the cell map and the clock at the
\* start and on the draws: it is the same for every order in which the first loop
\* visits the active cells. A Burning cell that this tick turns Burnt still counts
\* as a burning neighbour of each Uncaught neighbour in this tick, and a cell that
\* becomes Catching (or Burning) in this tick ignites nobody in it.
C13_Simultaneous ==
    /\ [](\A asc \in {FirstLoop(Self, Ascending(active))} :
              /\ \A p \in active :
                     trees[p].state = "Burning" /\ tick >= trees[p].until
                         => \A q \in DOMAIN trees :
                                trees[q] = Uncaught /\ Adjacent(p, q)
                                    => q \in DOMAIN asc.may_burn
              /\ \A acc \in {FirstLoop(Self, order) : order \in VisitOrders(active)}
                             \ {asc} :
                     /\ acc.may_burn = asc.may_burn
                     /\ \A om \in IterOrders(DOMAIN asc.may_burn) :
                            \A draws \in DrawVectors(Len(om)) :
                                Finish(Self, acc, om, draws)
                                    = Finish(Self, asc, om, draws))
    /\ [][\A q \in DOMAIN trees :
              trees[q] = Uncaught /\ trees'[q] # Uncaught => BurningNeighbors(q) # {}]_vars

\* a Burning cell about to burn out and a Catching cell are both active next to an
\* Uncaught tree
C13_Witness ==
    /\ Cardinality(active) >= 2
    /\ \E p \in active, q \in Endangered :
           trees[p].state = "Burning" /\ tick >= trees[p].until /\ Adjacent(p, q)
    /\ \E p \in active, q \in DOMAIN trees :
           trees[p] = Catching /\ trees[q] = Uncaught /\ Adjacent(p, q)

\* C14: every cell that is Catching when tick() is called with the clock at T is
\* Burning(T + burn_duration) when the call returns; so no cell is Catching in two
\* consecutive observed states and none goes from Catching straight to Burnt.
C14_CatchingTransient ==
    [][\A p \in DOMAIN trees :
           trees[p] = Catching
               => /\ p \in DOMAIN trees'
                  /\ trees'[p] = Burning(tick + burn_duration)
                  /\ trees'[p] # Catching
                  /\ trees'[p] # Burnt]_vars

\* a cell ignited by a neighbour has gone from Catching to Burning with the clock
\* above 0
C14_Witness ==
    /\ tick >= 3
    /\ \E p \in DOMAIN trees :
           p # Center /\ trees[p] = Burning(tick - 1 + burn_duration)

\* C15: tick() leaves unchanged every cell that is Burnt, or Uncaught with no Moore
\* neighbour Burning, when the call starts, and it leaves the susceptibility, the
\* burn duration and the grid dimensions unchanged; only the cells that are active,
\* or Uncaught with a Burning neighbour, can change.
C15_Frame ==
    [][/\ \A p \in DOMAIN trees :
              trees[p] = Burnt \/ (trees[p] = Uncaught /\ BurningNeighbors(p) = {})
                  => p \in DOMAIN trees' /\ trees'[p] = trees[p]
       /\ DOMAIN trees' = DOMAIN trees
       /\ \A p \in DOMAIN trees :
              trees'[p] # trees[p] => p \in active \/ p \in Endangered
       /\ suceptibility' = suceptibility
       /\ burn_duration' = burn_duration
       /\ grid_width' = grid_width
       /\ grid_height' = grid_height]_vars

\* a fire is burning next to a Burnt cell while an Uncaught tree has a Catching
\* neighbour and no Burning one
C15_Witness ==
    /\ tick > 0
    /\ \E p \in active, q \in DOMAIN trees : trees[q] = Burnt /\ Adjacent(p, q)
    /\ \E p \in active, q \in DOMAIN trees \ Endangered :
           trees[p] = Catching /\ trees[q] = Uncaught /\ Adjacent(p, q)

\* C16: after Forest::new(grid_width, grid_height, ...) with grid_width >= 1 and
\* grid_height >= 1, every coordinate (x, y) that is a key of the cell map or a member
\* of the active set, the ignition coordinate included, has x < grid_width and
\* y < grid_height.
C16_InsideGrid ==
    tick = 0 => \A p \in DOMAIN trees \cup active :
                    p.x < grid_width /\ p.y < grid_height

\* the calls of tick() after which the active cell p is Burnt
CallsLeft(p) ==
    IF trees[p] = Catching THEN burn_duration + 1 ELSE trees[p].until - tick + 1

\* C17: for every susceptibility, every burn duration D >= 1, every placement and
\* all draws, a forest of N trees (the ignition cell included) is in a steady state
\* after at most N * (D + 1) calls of tick(): while steady_state() is false the
\* clock is below N * (D + 1), and the calls already made, those the active cells
\* still need and D + 1 more for each Uncaught tree fit in N * (D + 1).
C17_DiesOut ==
    ~SteadyState(Self) =>
        /\ tick < Cardinality(DOMAIN trees) * (burn_duration + 1)
        /\ \A p \in active :
               tick + CallsLeft(p)
                   + Cardinality({q \in DOMAIN trees : trees[q] = Uncaught})
                         * (burn_duration + 1)
                   <= Cardinality(DOMAIN trees) * (burn_duration + 1)

\* two trees have burnt one after the other and the last of the N * (D + 1) calls
\* has put the fire out
C17_Witness ==
    /\ Cardinality(DOMAIN trees) >= 2
    /\ tick = Cardinality(DOMAIN trees) * (burn_duration + 1)
    /\ SteadyState(Self)
    /\ \A p \in DOMAIN trees : trees[p] = Burnt

\* C18: with burn duration D >= 1, in every observed state every Burning(until) cell
\* has clock <= until <= clock + D - 1; hence the test `tick >= until` of tick()
\* succeeds exactly when the clock equals until, and until never changes while the
\* cell stays Burning.
C18_ExtinguishTick ==
    /\ [](\A p \in DOMAIN trees :
              trees[p].state = "Burning"
                  => tick <= trees[p].until /\ trees[p].until <= tick + burn_duration - 1)
    /\ [][\A p \in DOMAIN trees :
              trees[p].state = "Burning"
                  => /\ (tick >= trees[p].until) <=> (tick = trees[p].until)
                     /\ IF tick = trees[p].until THEN trees'[p] = Burnt
                        ELSE trees'[p] = trees[p]]_vars

\* a cell ignited by a neighbour is Burning with a tick still to go, and another
\* cell has burnt out
C18_Witness ==
    /\ burn_duration >= 2
    /\ \E p \in DOMAIN trees :
           p # Center /\ trees[p].state = "Burning" /\ trees[p].until = tick + 1
    /\ \E p \in DOMAIN trees : trees[p] = Burnt

RECURSIVE Spread(_, _)
\* the coordinates of S joined to one of R by a path of Moore-adjacent coordinates
\* of S
Spread(R, S) ==
    LET more == {q \in S \ R : \E p \in R : Adjacent(p, q)}
    IN  IF more = {} THEN R ELSE Spread(R \cup more, S)

\* the coordinates holding a tree that is not Uncaught
Scorched == {p \in DOMAIN trees : trees[p] # Uncaught}

\* C19: in every reachable state every cell that is not Uncaught is joined to the
\* ignition coordinate by a path of Moore-adjacent coordinates that all hold trees
\* that are not Uncaught; a tree with no path of trees to the ignition coordinate
\* is Uncaught in every state.
C19_NoJump ==
    /\ Scorched \subseteq Spread({Center}, Scorched)
    /\ \A p \in DOMAIN trees \ Spread({Center}, DOMAIN trees) : trees[p] = Uncaught

\* with susceptibility 1 the fire has died out and a tree beyond a gap is still
\* Uncaught
C19_Witness ==
    /\ suceptibility = Resolution
    /\ SteadyState(Self)
    /\ trees[Center] = Burnt
    /\ DOMAIN trees \ Spread({Center}, DOMAIN trees) # {}

====
